---- MODULE Spec2Model ----
(***************************************************************************)
(* Model of the smart-mirror App component (src/unnamed/part_000) and the  *)
(* AppState enumeration (src/types.ts).                                    *)
(*                                                                         *)
(* React state is modelled in two layers: the committed value (what the    *)
(* last render returned from useState) and the update queue of each hook.  *)
(* A queue is kept as its running result: a plain-value update overwrites  *)
(* it, an updater function is applied to it, so the queue is either empty  *)
(* (<<>>) or <<v>> with v the value the next render will commit.           *)
(* Event handlers (click, promise continuation, timer, frame callback)     *)
(* only append to the queues; Render commits the queues and runs the       *)
(* effects whose dependencies changed (cleanups first, then setups).       *)
(***************************************************************************)
EXTENDS Integers, Sequences, FiniteSets, TLC

\* ---- bounds of the model ----
MaxClicks == 2          \* user clicks on the start button
MaxScareTimers == 2     \* reset timeouts outstanding at once
MaxCoord == 2           \* mouth corner x coordinates range over 0..MaxCoord
MaxLip == 1             \* lip y coordinates range over 0..MaxLip

\* ---- AppState (src/types.ts) ----
SETUP == "SETUP"
LOADING_TIPS == "LOADING_TIPS"
MIRROR_ACTIVE == "MIRROR_ACTIVE"
SCARE_TRIGGERED == "SCARE_TRIGGERED"
AppState == {SETUP, LOADING_TIPS, MIRROR_ACTIVE, SCARE_TRIGGERED}

\* ---- program constants ----
TipsLength == 4
BaitIndex == 3

StatusStandby == "System Standby"
StatusAssets == "Assets Ready"
StatusOnline == "Online - Visual Sensors Active"

VARIABLES
  appState,            \* useState: committed phase
  systemStatus,        \* useState: committed status text
  currentTipIndex,     \* useState: committed tip index
  isCameraReady,       \* useState: committed camera readiness
  assetsLoaded,        \* useState: committed asset readiness
  qAppState,           \* pending setAppState updates
  qSystemStatus,       \* pending setSystemStatus updates
  qTipIndex,           \* pending setCurrentTipIndex updates
  qCameraReady,        \* pending setIsCameraReady updates
  qAssetsLoaded,       \* pending setAssetsLoaded updates
  appStateRef,         \* appStateRef.current
  currentTipIndexRef,  \* currentTipIndexRef.current
  audio,               \* audio element: "pending", "loaded" or "error"
  image,               \* scare image:   "pending", "loaded" or "error"
  preloadDone,         \* preload() has passed its await
  mediaPipeLoaded,     \* window.FaceMesh and window.Camera are defined
  trackerOn,           \* camera started and face mesh open (cleanup registered)
  closureCameraReady,  \* isCameraReady as closed over by onResults
  intervalOn,          \* the tip rotation interval is set
  camerasRunning,      \* cameras started and not stopped
  unlocksPending,      \* startApp invocations awaiting resumeContext
  loadTimers,          \* outstanding 1000 ms timeouts of startApp
  scareTimers,         \* outstanding 3000 ms timeouts of triggerScare
  screams,             \* playScream calls since the last reset timeout fired
  clicks,              \* clicks made on the start button
  lastEvent            \* the event handled by the last step

vars == <<appState, systemStatus, currentTipIndex, isCameraReady, assetsLoaded,
          qAppState, qSystemStatus, qTipIndex, qCameraReady, qAssetsLoaded,
          appStateRef, currentTipIndexRef, audio, image, preloadDone,
          mediaPipeLoaded, trackerOn, closureCameraReady, intervalOn,
          camerasRunning, unlocksPending, loadTimers, scareTimers, screams, clicks, lastEvent>>

reactState == <<appState, systemStatus, currentTipIndex, isCameraReady, assetsLoaded>>
refs == <<appStateRef, currentTipIndexRef>>
effects == <<trackerOn, closureCameraReady, intervalOn, camerasRunning>>
preloader == <<audio, image, preloadDone>>

\* ---- helpers ----
Abs(x) == IF x < 0 THEN -x ELSE x

\* The value the next render commits for a hook: the queue's result, else the
\* committed value.
Latest(q, committed) == IF q = <<>> THEN committed ELSE q[1]

Event(t) == [type |-> t, face |-> FALSE, open |-> FALSE, image |-> FALSE,
             fired |-> FALSE, ok |-> FALSE]

\* ratio > 0.4 with ratio = mouthHeight / mouthWidth in floating point:
\* h/0 is Infinity for h > 0 and NaN for h = 0 (NaN > 0.4 is false).
RatioAboveThreshold(mouthHeight, mouthWidth) ==
  IF mouthWidth = 0 THEN mouthHeight > 0
  ELSE 10 * mouthHeight > 4 * mouthWidth

\* Faulty variant of TipUpdater: stops one tip before the last.
TipUpdaterStopsEarly(prev) == IF prev >= TipsLength - 2 THEN prev ELSE prev + 1

\* Faulty variant of TipUpdater: wraps to 0 after the last tip.
TipUpdaterWrapping(prev) == (prev + 1) % TipsLength

\* The updater passed to setCurrentTipIndex by the interval.
TipUpdater(prev) == IF prev >= TipsLength - 1 THEN prev ELSE prev + 1

\* Faulty variant of RotationGate: ignores camera readiness.
RotationGateNoCamera(state, cameraReady) == state = MIRROR_ACTIVE

\* Condition of the tip rotation effect for starting its interval.
RotationGate(state, cameraReady) == state = MIRROR_ACTIVE /\ cameraReady

\* Guard of triggerScare: TRUE when the call proceeds.
ScareGuard(refState) == refState # SCARE_TRIGGERED

\* Faulty variant of OnBaitTip: off by one.
OnBaitTipOffByOne(refTip) == refTip >= BaitIndex - 1

\* Bait check of onResults.
OnBaitTip(refTip) == refTip = BaitIndex

\* The start button is rendered in SETUP and disabled until assets are loaded.
StartButtonShown(state) == state = SETUP
\* Faulty variant of StartButtonEnabled: the button is never disabled.
StartButtonNeverDisabled(state, loaded) == StartButtonShown(state)

StartButtonEnabled(state, loaded) == StartButtonShown(state) /\ loaded

\* Faulty variant of CleanupCameraReady: the cleanup leaves the readiness
\* as rendered.
CleanupKeepsCameraReady(rendered) == rendered

\* Readiness requested by the FaceMesh effect cleanup: setIsCameraReady(false).
CleanupCameraReady(rendered) == FALSE

\* Faulty variant of MarksCameraReady: ignores whether a face was found.
MarksCameraReadyAnyFrame(hasImage, face, closureReady) ==
  hasImage /\ ~closureReady

\* onResults calls setIsCameraReady(true): a frame with an image and a face,
\* and the closed-over isCameraReady is false.
MarksCameraReady(hasImage, face, closureReady) ==
  hasImage /\ face /\ ~closureReady

\* Faulty variant of PlayScreamThrows: a failed play() escapes playScream.
PlayScreamPropagates(playOk) == ~playOk

\* playScream catches a failed audio.play() and logs it: nothing is thrown
\* into triggerScare.
PlayScreamThrows(playOk) == FALSE

\* Faulty variant of TrackerAvailable: the availability check is skipped.
TrackerAssumedAvailable(loaded) == TRUE

\* Safety check of the FaceMesh effect: window.FaceMesh and window.Camera.
TrackerAvailable(loaded) == loaded

\* Faulty variant of CamerasStopped: the cleanup does not stop the camera.
CamerasLeftRunning(registered) == 0

\* Cameras stopped by the FaceMesh effect cleanup: camera.stop() and
\* faceMesh.close() when the cleanup was registered.
CamerasStopped(registered) == IF registered THEN 1 ELSE 0

Init ==
  /\ appState = SETUP
  /\ systemStatus = StatusStandby
  /\ currentTipIndex = 0
  /\ isCameraReady = FALSE
  /\ assetsLoaded = FALSE
  /\ qAppState = <<>>
  /\ qSystemStatus = <<>>
  /\ qTipIndex = <<>>
  /\ qCameraReady = <<>>
  /\ qAssetsLoaded = <<>>
  /\ appStateRef = SETUP
  /\ currentTipIndexRef = 0
  /\ audio \in {"pending", "loaded"}
  /\ image = "pending"
  /\ preloadDone = FALSE
  /\ mediaPipeLoaded \in BOOLEAN
  /\ trackerOn = FALSE
  /\ closureCameraReady = FALSE
  /\ intervalOn = FALSE
  /\ camerasRunning = 0
  /\ unlocksPending = 0
  /\ loadTimers = 0
  /\ scareTimers = 0
  /\ screams = 0
  /\ clicks = 0
  /\ lastEvent = Event("Mount")

\* ---- asset preloader ----
\* AudioService.load: canplaythrough or error settles the promise.
AudioSettle ==
  /\ audio = "pending"
  /\ \E r \in {"loaded", "error"} : audio' = r
  /\ lastEvent' = Event("AudioSettle")
  /\ UNCHANGED <<reactState, refs, effects, qAppState, qSystemStatus, qTipIndex,
                 qCameraReady, qAssetsLoaded, image, preloadDone, mediaPipeLoaded,
                 unlocksPending, loadTimers, scareTimers, screams, clicks>>

\* img.onload / img.onerror both resolve the image promise.
ImageSettle ==
  /\ image = "pending"
  /\ \E r \in {"loaded", "error"} : image' = r
  /\ lastEvent' = Event("ImageSettle")
  /\ UNCHANGED <<reactState, refs, effects, qAppState, qSystemStatus, qTipIndex,
                 qCameraReady, qAssetsLoaded, audio, preloadDone, mediaPipeLoaded,
                 unlocksPending, loadTimers, scareTimers, screams, clicks>>

\* Faulty variant of AllSettled: a failed load never settles its promise.
AllLoaded(a, i) == a = "loaded" /\ i = "loaded"

\* Faulty variant of AllSettled: the first promise to settle is enough.
AnySettled(a, i) == a # "pending" \/ i # "pending"

\* Both promises settled.
AllSettled(a, i) == a # "pending" /\ i # "pending"

\* Continuation of preload() after await Promise.all([...]).
PreloadContinue ==
  /\ ~preloadDone
  /\ AllSettled(audio, image)
  /\ preloadDone' = TRUE
  /\ qAssetsLoaded' = <<TRUE>>
  /\ qSystemStatus' = <<StatusAssets>>
  /\ lastEvent' = Event("PreloadContinue")
  /\ UNCHANGED <<reactState, refs, effects, qAppState, qTipIndex, qCameraReady,
                 audio, image, mediaPipeLoaded,
                 unlocksPending, loadTimers, scareTimers, screams, clicks>>

\* The MediaPipe scripts finish loading and define window.FaceMesh / Camera.
MediaPipeLoad ==
  /\ ~mediaPipeLoaded
  /\ mediaPipeLoaded' = TRUE
  /\ lastEvent' = Event("MediaPipeLoad")
  /\ UNCHANGED <<reactState, refs, effects, qAppState, qSystemStatus, qTipIndex,
                 qCameraReady, qAssetsLoaded, preloader,
                 unlocksPending, loadTimers, scareTimers, screams, clicks>>

\* ---- start ----
\* A click on the start button.  A disabled button does not call onClick;
\* otherwise startApp runs up to its await.
ClickStart ==
  /\ StartButtonShown(appState)
  /\ clicks < MaxClicks
  /\ clicks' = clicks + 1
  /\ unlocksPending' = IF StartButtonEnabled(appState, assetsLoaded)
                       THEN unlocksPending + 1 ELSE unlocksPending
  /\ lastEvent' = [Event("ClickStart") EXCEPT
                     !.fired = StartButtonEnabled(appState, assetsLoaded)]
  /\ UNCHANGED <<reactState, refs, effects, qAppState, qSystemStatus, qTipIndex,
                 qCameraReady, qAssetsLoaded, preloader, mediaPipeLoaded,
                 loadTimers, scareTimers, screams>>

\* Continuation of startApp after await resumeContext(); resumeContext
\* catches a failed unlock, so both outcomes continue the same way.
StartAppContinue ==
  /\ unlocksPending > 0
  /\ \E ok \in BOOLEAN : lastEvent' = [Event("StartAppContinue") EXCEPT !.ok = ok]
  /\ unlocksPending' = unlocksPending - 1
  /\ qAppState' = <<LOADING_TIPS>>
  /\ loadTimers' = loadTimers + 1
  /\ UNCHANGED <<reactState, refs, effects, qSystemStatus, qTipIndex,
                 qCameraReady, qAssetsLoaded, preloader, mediaPipeLoaded,
                 scareTimers, screams, clicks>>

\* The 1000 ms timeout of startApp.
LoadTimerFire ==
  /\ loadTimers > 0
  /\ loadTimers' = loadTimers - 1
  /\ qAppState' = <<MIRROR_ACTIVE>>
  /\ qSystemStatus' = <<StatusOnline>>
  /\ lastEvent' = Event("LoadTimerFire")
  /\ UNCHANGED <<reactState, refs, effects, qTipIndex,
                 qCameraReady, qAssetsLoaded, preloader, mediaPipeLoaded,
                 unlocksPending, scareTimers, screams, clicks>>

\* ---- tip rotation ----
\* One tick of the 2000 ms interval.
TipTick ==
  /\ intervalOn
  /\ qTipIndex' = <<TipUpdater(Latest(qTipIndex, currentTipIndex))>>
  /\ lastEvent' = Event("TipTick")
  /\ UNCHANGED <<reactState, refs, effects, qAppState, qSystemStatus,
                 qCameraReady, qAssetsLoaded, preloader, mediaPipeLoaded,
                 unlocksPending, loadTimers, scareTimers, screams, clicks>>

\* ---- scare ----
\* The 3000 ms timeout of triggerScare.
ScareTimerFire ==
  /\ scareTimers > 0
  /\ scareTimers' = scareTimers - 1
  /\ qAppState' = <<MIRROR_ACTIVE>>
  /\ qTipIndex' = <<0>>
  /\ screams' = 0
  /\ lastEvent' = Event("ScareTimerFire")
  /\ UNCHANGED <<reactState, refs, effects, qSystemStatus,
                 qCameraReady, qAssetsLoaded, preloader, mediaPipeLoaded,
                 unlocksPending, loadTimers, clicks>>

\* faceMesh.onResults for one frame.  hasImage: canvas, context and
\* results.image are present; face: multiFaceLandmarks is non-empty;
\* the four coordinates are landmarks 13.y, 14.y, 61.x and 291.x.
\* playOk is the outcome of audio.play() inside playScream (caught, logged).
OnResults ==
  /\ trackerOn
  /\ \E hasImage \in BOOLEAN :
     \E face \in (IF hasImage THEN BOOLEAN ELSE {FALSE}) :
     \E upperY, lowerY \in (IF face THEN 0..MaxLip ELSE {0}) :
     \E leftX, rightX \in (IF face THEN 0..MaxCoord ELSE {0}) :
       LET mouthHeight == Abs(upperY - lowerY)
           mouthWidth == Abs(leftX - rightX)
           open == RatioAboveThreshold(mouthHeight, mouthWidth)
           seen == hasImage /\ face
           inMirror == seen /\ appStateRef = MIRROR_ACTIVE
           calls == inMirror /\ open /\ OnBaitTip(currentTipIndexRef)
           fires == calls /\ ScareGuard(appStateRef)
       IN /\ fires => scareTimers < MaxScareTimers
          /\ qCameraReady' = IF MarksCameraReady(hasImage, face, closureCameraReady)
                             THEN <<TRUE>> ELSE qCameraReady
          /\ qAppState' = IF fires THEN <<SCARE_TRIGGERED>> ELSE qAppState
          /\ screams' = IF fires THEN screams + 1 ELSE screams
          /\ \E playOk \in (IF fires THEN BOOLEAN ELSE {FALSE}) :
             /\ scareTimers' = IF fires /\ ~PlayScreamThrows(playOk)
                               THEN scareTimers + 1 ELSE scareTimers
             /\ lastEvent' = [type |-> "OnResults", face |-> seen,
                             open |-> seen /\ open, image |-> hasImage,
                             fired |-> fires, ok |-> playOk]
  /\ UNCHANGED <<reactState, refs, effects, qSystemStatus, qTipIndex,
                 qAssetsLoaded, preloader, mediaPipeLoaded,
                 unlocksPending, loadTimers, clicks>>

\* ---- render ----
\* A re-render: commit every queue, then run the effects whose dependencies
\* changed: all cleanups, then all setups, in declaration order.
Render ==
  /\ \/ qAppState # <<>>
     \/ qSystemStatus # <<>>
     \/ qTipIndex # <<>>
     \/ qCameraReady # <<>>
     \/ qAssetsLoaded # <<>>
  /\ LET newState == Latest(qAppState, appState)
         newTip == Latest(qTipIndex, currentTipIndex)
         newReady == Latest(qCameraReady, isCameraReady)
         stateChanged == newState # appState
         readyChanged == newReady # isCameraReady
         tearDown == stateChanged /\ trackerOn
         setUp == /\ stateChanged
                  /\ newState = MIRROR_ACTIVE
                  /\ TrackerAvailable(mediaPipeLoaded)
     IN /\ appState' = newState
        /\ systemStatus' = Latest(qSystemStatus, systemStatus)
        /\ currentTipIndex' = newTip
        /\ isCameraReady' = newReady
        /\ assetsLoaded' = Latest(qAssetsLoaded, assetsLoaded)
        /\ qAppState' = <<>>
        /\ qSystemStatus' = <<>>
        /\ qTipIndex' = <<>>
        /\ qAssetsLoaded' = <<>>
        \* FaceMesh effect cleanup: setIsCameraReady(false), stop, close
        /\ qCameraReady' = IF tearDown THEN <<CleanupCameraReady(newReady)>>
                                        ELSE <<>>
        \* ref sync effects
        /\ appStateRef' = newState
        /\ currentTipIndexRef' = newTip
        \* tip rotation effect: clearInterval, then setInterval if gated
        /\ intervalOn' = IF stateChanged \/ readyChanged
                         THEN RotationGate(newState, newReady)
                         ELSE intervalOn
        \* FaceMesh effect
        /\ trackerOn' = IF stateChanged THEN setUp ELSE trackerOn
        /\ camerasRunning' = (camerasRunning
                              - (IF stateChanged THEN CamerasStopped(trackerOn) ELSE 0))
                             + (IF setUp THEN 1 ELSE 0)
        /\ closureCameraReady' = IF stateChanged
                                 THEN (setUp /\ newReady)
                                 ELSE closureCameraReady
  /\ lastEvent' = Event("Render")
  /\ UNCHANGED <<preloader, mediaPipeLoaded,
                 unlocksPending, loadTimers, scareTimers, screams, clicks>>

Next ==
  \/ AudioSettle
  \/ ImageSettle
  \/ PreloadContinue
  \/ MediaPipeLoad
  \/ ClickStart
  \/ StartAppContinue
  \/ LoadTimerFire
  \/ TipTick
  \/ ScareTimerFire
  \/ OnResults
  \/ Render

Spec == Init /\ [][Next]_vars

\* Timers, promise continuations and scheduled renders always run eventually.
FairSpec ==
  /\ Spec
  /\ WF_vars(Render)
  /\ WF_vars(PreloadContinue)
  /\ WF_vars(StartAppContinue)
  /\ WF_vars(LoadTimerFire)
  /\ WF_vars(ScareTimerFire)

\* FairSpec, and the 2000 ms interval keeps ticking while it is set.
FairTickSpec == FairSpec /\ WF_vars(TipTick)

TypeOK ==
  /\ appState \in AppState
  /\ currentTipIndex \in 0..(TipsLength - 1)
  /\ isCameraReady \in BOOLEAN
  /\ assetsLoaded \in BOOLEAN
  /\ appStateRef = appState
  /\ currentTipIndexRef = currentTipIndex
  /\ scareTimers \in 0..MaxScareTimers
  /\ clicks \in 0..MaxClicks
\* ---- claims ----

\* C1: the phase becomes SCARE_TRIGGERED only in a step whose previous phase
\* is MIRROR_ACTIVE, and the phase that follows SCARE_TRIGGERED is always
\* MIRROR_ACTIVE, never SETUP or LOADING_TIPS.
C1_ScareOnlyFromAndToMirror ==
  [][ /\ (appState # SCARE_TRIGGERED /\ appState' = SCARE_TRIGGERED)
           => appState = MIRROR_ACTIVE
      /\ (appState = SCARE_TRIGGERED /\ appState' # SCARE_TRIGGERED)
           => appState' = MIRROR_ACTIVE ]_vars

\* The half of C1 the code keeps: entry to SCARE_TRIGGERED only from
\* MIRROR_ACTIVE.
C1_EntryOnlyFromMirror ==
  [][ (appState # SCARE_TRIGGERED /\ appState' = SCARE_TRIGGERED)
        => appState = MIRROR_ACTIVE ]_vars
\* The values the next render will commit.
LatestAppState == Latest(qAppState, appState)
LatestTipIndex == Latest(qTipIndex, currentTipIndex)
LatestCameraReady == Latest(qCameraReady, isCameraReady)

\* C2: between the first qualifying frame of a MIRROR_ACTIVE window and the
\* reset timeout, playScream happens exactly once, however frame callbacks
\* interleave with the re-render that refreshes appStateRef.
C2_ScreamOncePerWindow == screams <= 1

C4_ScareExitResetsTip ==
  [][ (appState = SCARE_TRIGGERED /\ appState' = MIRROR_ACTIVE)
        => currentTipIndex' = 0 ]_vars

\* C4 (liveness half): SCARE_TRIGGERED always leads back to MIRROR_ACTIVE.
C4_ScareLeadsToMirror ==
  (appState = SCARE_TRIGGERED) ~> (appState = MIRROR_ACTIVE)

\* C5 (safety half): every step from LOADING_TIPS to MIRROR_ACTIVE leaves the
\* tip index at 0.
C5_LoadingExitTipZero ==
  [][ (appState = LOADING_TIPS /\ appState' = MIRROR_ACTIVE)
        => currentTipIndex' = 0 ]_vars

\* C5 (liveness half): an accepted start leads to LOADING_TIPS or beyond and
\* then to MIRROR_ACTIVE.
C5_StartLeadsToMirror ==
  (unlocksPending > 0) ~> (appState = MIRROR_ACTIVE)

\* C6: while assets are not loaded a start request does nothing: no unlock
\* is awaited, no loading timeout is scheduled, no phase change is requested;
\* hence phase # SETUP implies assetsLoaded.
C6_StartNeedsAssets ==
  /\ appState # SETUP => assetsLoaded
  /\ ~assetsLoaded =>
       /\ unlocksPending = 0
       /\ loadTimers = 0
       /\ qAppState = <<>>
       /\ appState = SETUP

C6_Witness ==
  /\ lastEvent.type = "ClickStart"
  /\ clicks > 0
  /\ ~assetsLoaded
  /\ appState = SETUP
  /\ unlocksPending = 0

\* C7: the tip index stays in 0..3; a rotator tick adds exactly 1 or, at 3,
\* leaves it at 3; it decreases only by the reset to 0 of the scare timeout;
\* a render commits exactly the index the handlers requested.
C7_TipSaturates ==
  /\ [](currentTipIndex \in 0..(TipsLength - 1)
        /\ LatestTipIndex \in 0..(TipsLength - 1))
  /\ [][ /\ lastEvent'.type = "TipTick" =>
              LatestTipIndex' = IF LatestTipIndex = TipsLength - 1
                                THEN TipsLength - 1 ELSE LatestTipIndex + 1
         /\ LatestTipIndex' < LatestTipIndex =>
              (lastEvent'.type = "ScareTimerFire" /\ LatestTipIndex' = 0)
         /\ currentTipIndex' # currentTipIndex =>
              (lastEvent'.type = "Render" /\ currentTipIndex' = LatestTipIndex) ]_vars

C7_Witness ==
  /\ lastEvent.type = "TipTick"
  /\ currentTipIndex = TipsLength - 1
  /\ qTipIndex = <<TipsLength - 1>>

\* C8: the rotator advances the tip index only in steps taken with phase
\* MIRROR_ACTIVE and camera readiness true; the interval exists only then.
C8_RotatorGated ==
  /\ [](intervalOn => (appState = MIRROR_ACTIVE /\ isCameraReady))
  /\ [][ /\ lastEvent'.type = "TipTick" =>
              (appState = MIRROR_ACTIVE /\ isCameraReady)
         /\ LatestTipIndex' > LatestTipIndex => lastEvent'.type = "TipTick" ]_vars

C8_Witness ==
  /\ lastEvent.type = "TipTick"
  /\ qTipIndex # <<>>
  /\ LatestTipIndex = currentTipIndex + 1

\* C9: every step out of MIRROR_ACTIVE tears the tracker down and requests
\* camera readiness false; readiness is false at every entry to
\* MIRROR_ACTIVE and outside MIRROR_ACTIVE no readiness is requested.
C9_ReadinessResetOnExit ==
  /\ [](appState # MIRROR_ACTIVE => (~LatestCameraReady /\ ~trackerOn))
  /\ [][ /\ (appState = MIRROR_ACTIVE /\ appState' # MIRROR_ACTIVE)
              => (~trackerOn' /\ ~LatestCameraReady')
         /\ (appState # MIRROR_ACTIVE /\ appState' = MIRROR_ACTIVE)
              => (~isCameraReady' /\ qCameraReady' = <<>>) ]_vars

C9_Witness ==
  /\ lastEvent.type = "Render"
  /\ appState = SCARE_TRIGGERED
  /\ isCameraReady
  /\ qCameraReady = <<FALSE>>
  /\ ~trackerOn

\* C10: camera readiness goes from false to true only by a frame with a
\* face, delivered in MIRROR_ACTIVE, whatever the mouth does; a frame
\* without a face leaves readiness and the rotation interval alone.
C10_ReadinessOnlyByFace ==
  /\ [](~isCameraReady => ~intervalOn)
  /\ [][ /\ (~LatestCameraReady /\ LatestCameraReady')
              => (lastEvent'.type = "OnResults" /\ lastEvent'.face
                  /\ appState = MIRROR_ACTIVE)
         /\ (lastEvent'.type = "OnResults" /\ lastEvent'.face)
              => LatestCameraReady'
         /\ (lastEvent'.type = "OnResults" /\ ~lastEvent'.face)
              => UNCHANGED <<qCameraReady, isCameraReady, intervalOn>>
         /\ (~isCameraReady /\ isCameraReady') => appState = MIRROR_ACTIVE ]_vars

C10_Witness ==
  /\ lastEvent.type = "OnResults"
  /\ lastEvent.face
  /\ ~lastEvent.open
  /\ ~isCameraReady
  /\ qCameraReady = <<TRUE>>
\* C11: for each of the four outcomes (audio loaded or failed, image loaded
\* or failed), once both resources have settled asset readiness eventually
\* becomes true; the preloader has no state in which it stays blocked.
C11_ReadinessDespiteFailure ==
  \A a, i \in {"loaded", "error"} :
    (audio = a /\ image = i) ~> assetsLoaded

C11_Witness ==
  /\ audio = "error"
  /\ image = "error"
  /\ assetsLoaded

\* C12: while the audio or the image is still pending, asset readiness is
\* false and not requested; once true it never returns to false.
C12_ReadinessOnlyAfterBothSettled ==
  /\ []((audio = "pending" \/ image = "pending")
          => (~assetsLoaded /\ qAssetsLoaded = <<>> /\ ~preloadDone))
  /\ [][assetsLoaded => assetsLoaded']_vars

C12_Witness ==
  /\ audio = "error"
  /\ image = "pending"
  /\ ~assetsLoaded

\* C13: a failed playScream changes nothing: the frame that triggers the
\* scare requests SCARE_TRIGGERED and schedules the reset timeout whether or
\* not playback succeeds, the timeout requests MIRROR_ACTIVE with tip index
\* 0, and a timeout is outstanding as long as SCARE_TRIGGERED is not left.
C13_PlaybackFailureNonFatal ==
  /\ []((appState = SCARE_TRIGGERED /\ LatestAppState = SCARE_TRIGGERED)
          => scareTimers > 0)
  /\ [][ /\ (lastEvent'.type = "OnResults" /\ lastEvent'.fired)
              => /\ qAppState' = <<SCARE_TRIGGERED>>
                 /\ scareTimers' = scareTimers + 1
                 /\ UNCHANGED <<reactState, refs, effects, qTipIndex>>
         /\ lastEvent'.type = "ScareTimerFire"
              => (qAppState' = <<MIRROR_ACTIVE>> /\ qTipIndex' = <<0>>) ]_vars

C13_Witness ==
  /\ lastEvent.type = "OnResults"
  /\ lastEvent.fired
  /\ ~lastEvent.ok
  /\ qAppState = <<SCARE_TRIGGERED>>
  /\ scareTimers = 1

\* The part of C14 the code keeps: when MediaPipe is unavailable at the entry
\* to MIRROR_ACTIVE no tracker is started; while MIRROR_ACTIVE runs without
\* a tracker, camera readiness stays false, the tip index is unchanged, no
\* scare is requested and SCARE_TRIGGERED does not follow, even if MediaPipe
\* loads later.
C14_NoTrackerEffects ==
  /\ []((appState = MIRROR_ACTIVE /\ ~trackerOn)
          => /\ ~isCameraReady /\ qCameraReady = <<>>
             /\ ~intervalOn
             /\ camerasRunning = 0
             /\ currentTipIndex = 0 /\ qTipIndex = <<>>
             /\ LatestAppState # SCARE_TRIGGERED
             /\ scareTimers = 0)
  /\ [][ /\ (appState # MIRROR_ACTIVE /\ appState' = MIRROR_ACTIVE
               /\ ~mediaPipeLoaded)
              => (~trackerOn' /\ camerasRunning' = 0)
         /\ (appState = MIRROR_ACTIVE /\ ~trackerOn)
              => appState' \notin {SCARE_TRIGGERED, SETUP} ]_vars

C14_Witness ==
  /\ appState = MIRROR_ACTIVE
  /\ ~trackerOn
  /\ mediaPipeLoaded
\* C14: when MediaPipe is unavailable at the entry to MIRROR_ACTIVE no
\* tracker is started, the phase remains MIRROR_ACTIVE, camera readiness
\* stays false, the tip index is unchanged and SCARE_TRIGGERED is never
\* reached in that window.
C14_TrackerUnavailable ==
  /\ C14_NoTrackerEffects
  /\ [][(appState = MIRROR_ACTIVE /\ ~trackerOn)
          => appState' = MIRROR_ACTIVE]_vars

\* C15 as amended: at most one camera runs at any time and only in
\* MIRROR_ACTIVE, every step out of MIRROR_ACTIVE stops it, and every entry
\* to MIRROR_ACTIVE made while MediaPipe is available starts a fresh one
\* whose callback closes over isCameraReady = false.
C15_TrackerPairedWhenAvailable ==
  /\ [](/\ camerasRunning \in {0, 1}
        /\ trackerOn <=> camerasRunning = 1
        /\ camerasRunning = 1 => appState = MIRROR_ACTIVE)
  /\ [][ /\ (appState = MIRROR_ACTIVE /\ appState' # MIRROR_ACTIVE)
              => camerasRunning' = 0
         /\ (appState # MIRROR_ACTIVE /\ appState' = MIRROR_ACTIVE
               /\ mediaPipeLoaded)
              => (camerasRunning = 0 /\ camerasRunning' = 1
                  /\ ~closureCameraReady') ]_vars

C15_Witness ==
  /\ lastEvent.type = "Render"
  /\ appState = SCARE_TRIGGERED
  /\ camerasRunning = 0
  /\ scareTimers = 1

\* C15: at most one tracker runs at any time, every start is followed by a
\* stop before the next start, every step out of MIRROR_ACTIVE stops the
\* running tracker and every entry to MIRROR_ACTIVE starts a fresh one.
C15_TrackerPaired ==
  /\ C15_TrackerPairedWhenAvailable
  /\ [][(appState # MIRROR_ACTIVE /\ appState' = MIRROR_ACTIVE)
          => camerasRunning' = 1]_vars

\* C16: at most one reset timeout of triggerScare is outstanding at any
\* time.
C16_OneResetTimer == scareTimers <= 1

\* C17: no rendered state pairs a new phase with stale readiness or tip
\* index: outside MIRROR_ACTIVE camera readiness is false, and a return from
\* SCARE_TRIGGERED to MIRROR_ACTIVE shows tip index 0.
C17_NoStaleObservation ==
  /\ [](appState # MIRROR_ACTIVE => ~isCameraReady)
  /\ [][(appState = SCARE_TRIGGERED /\ appState' = MIRROR_ACTIVE)
          => currentTipIndex' = 0]_vars

\* C18: whenever onResults runs, the refs its guards read hold the phase
\* and tip index the handlers have requested so far, also between a state
\* update and the render that refreshes the refs.
C18_GuardsReadCurrentState ==
  [][lastEvent'.type = "OnResults"
       => (appStateRef = LatestAppState
           /\ currentTipIndexRef = LatestTipIndex)]_vars

\* C19: LOADING_TIPS is entered only from SETUP, SETUP is never re-entered,
\* at most one loading timeout is outstanding, and no start continuation or
\* loading timeout requests a phase once the phase is MIRROR_ACTIVE or
\* SCARE_TRIGGERED.
C19_SingleStart ==
  /\ [](loadTimers <= 1)
  /\ [][ /\ (appState # LOADING_TIPS /\ appState' = LOADING_TIPS)
              => appState = SETUP
         /\ appState # SETUP => appState' # SETUP
         /\ (lastEvent'.type \in {"StartAppContinue", "LoadTimerFire"}
               /\ appState \in {MIRROR_ACTIVE, SCARE_TRIGGERED})
              => qAppState' = qAppState ]_vars

\* C20: while the interval keeps ticking, MIRROR_ACTIVE with camera
\* readiness leads to the bait tip unless that condition ends first, and the
\* requested tip index leaves the bait index only by the reset of a scare.
C20_BaitEventuallyShown ==
  /\ (appState = MIRROR_ACTIVE /\ isCameraReady)
       ~> (currentTipIndex = BaitIndex
           \/ ~(appState = MIRROR_ACTIVE /\ isCameraReady))
  /\ [][(LatestTipIndex = BaitIndex /\ LatestTipIndex' # BaitIndex)
          => lastEvent'.type = "ScareTimerFire"]_vars

C20_Witness ==
  /\ appState = MIRROR_ACTIVE
  /\ isCameraReady
  /\ intervalOn
  /\ currentTipIndex = BaitIndex
  /\ lastEvent.type = "Render"
====
